---- MODULE Spec2Model ----
(***************************************************************************)
(* Model of the regex engine: the recursive-descent parser (parser.py),    *)
(* the Thompson-style NFA builder (parser.py, NFABuilder), the backtracking*)
(* executor (finite_automata.py, NFA) and the facade (regex.py, Regex).    *)
(*                                                                         *)
(* A Python string is a sequence of one-character strings; the character   *)
(* at Python index i is element i + 1 of the sequence.                     *)
(***************************************************************************)
EXTENDS Integers, Sequences, FiniteSets, TLC

(***************************************************************************)
(* Characters and Python string primitives                                 *)
(***************************************************************************)

\* the printable ASCII characters, code points 32..126 in order (x60 names
\* the grave accent)
Ascii ==
  << " ", "!", "\"", "#", "$", "%", "&", "'", "(", ")", "*", "+", ",", "-", ".", "/",
     "0", "1", "2", "3", "4", "5", "6", "7", "8", "9", ":", ";", "<", "=", ">", "?",
     "@", "A", "B", "C", "D", "E", "F", "G", "H", "I", "J", "K", "L", "M", "N", "O",
     "P", "Q", "R", "S", "T", "U", "V", "W", "X", "Y", "Z", "[", "\\", "]", "^", "_",
     "x60", "a", "b", "c", "d", "e", "f", "g", "h", "i", "j", "k", "l", "m", "n", "o",
     "p", "q", "r", "s", "t", "u", "v", "w", "x", "y", "z", "{", "|", "}", "~" >>

\* names of the non-printable characters the parser can produce
Control ==
  [ x07 |-> 7, x09 |-> 9, x0a |-> 10, x0b |-> 11, x0c |-> 12, x0d |-> 13,
    x1e |-> 30, x85 |-> 133, xa0 |-> 160 ]

\* code point of a character (Python ord)
Ord(c) ==
  IF c \in DOMAIN Control THEN Control[c]
  ELSE 31 + (CHOOSE i \in 1..Len(Ascii) : Ascii[i] = c)

\* str.isdigit on one character; the empty string is not a digit
isdigit(c) == c # "" /\ Ord(c) \in 48..57

\* str.isalnum on one character; the empty string is not alphanumeric
isalnum(c) == c # "" /\ Ord(c) \in (48..57) \cup (65..90) \cup (97..122)

Min(a, b) == IF a < b THEN a ELSE b

\* Python slice s[a:b] for 0 <= a, 0 <= b (indices past the end are clamped)
Slice(s, a, b) == SubSeq(s, a + 1, Min(b, Len(s)))

RECURSIVE StrLE(_, _)
\* Python's a <= b on strings: lexicographic order by code point
StrLE(a, b) ==
  IF a = <<>> THEN TRUE
  ELSE IF b = <<>> THEN FALSE
  ELSE IF Ord(Head(a)) # Ord(Head(b)) THEN Ord(Head(a)) < Ord(Head(b))
  ELSE StrLE(Tail(a), Tail(b))

RECURSIVE int(_)
\* int() of a nonempty string of decimal digits
int(ds) ==
  IF ds = <<>> THEN 0
  ELSE 10 * int(SubSeq(ds, 1, Len(ds) - 1)) + (Ord(ds[Len(ds)]) - 48)

(***************************************************************************)
(* AST nodes (parser.py)                                                   *)
(***************************************************************************)

\* the value of a Python expression that evaluates to None
None == [type |-> "None"]

Epsilon == [type |-> "Epsilon"]

Literal(c) == [type |-> "Literal", c |-> c]

BackReference(reference) == [type |-> "BackReference", reference |-> reference]

Sequence(r1, r2) == [type |-> "Sequence", left |-> r1, right |-> r2]

Or(r1, r2) == [type |-> "Or", left |-> r1, right |-> r2]

KleeneStar(regex) == [type |-> "KleeneStar", child |-> regex]

KleenePlus(regex) == [type |-> "KleenePlus", child |-> regex]

Group(regex, num) == [type |-> "Group", child |-> regex, num |-> num]

\* c1 and c2 are strings: the set parser passes item() of its operands
Range(c1, c2) == [type |-> "Range", c1 |-> c1, c2 |-> c2]

Dot == [type |-> "Dot"]

StartAnchor == [type |-> "StartAnchor"]

EndAnchor == [type |-> "EndAnchor"]

\* AST.item() of the two node kinds the code applies it to as data:
\* Literal.item() is the character wrapped in single quotes, Epsilon.item() is "e"
item(node) ==
  IF node.type = "Literal" THEN <<"'", node.c, "'">>
  ELSE <<"e">>

(***************************************************************************)
(* RegexParser (parser.py)                                                 *)
(***************************************************************************)

GLOBAL_METACHARS == {"\\", "^", "$", "[", ".", "|", "(", ")", "?", "*", "+", "{"}

SET_METACHARS == {"\\", "^", "-", "[", "]"}

QUANTIFIERS == {"*", "+", "?"}

ANCHORS == {"^", "$"}

INVALID_START_CHAR == {")", "|"}

CHAR_ESCAPE_SEQS ==
  [ a |-> "x07", e |-> "x1e", f |-> "x0c", n |-> "x0a", r |-> "x0d", t |-> "x09" ]

\* the alternation of the vertical-whitespace literals, shared by "v" and "s"
EscapeV ==
  Or(Literal("x0a"), Or(Literal("x0b"), Or(Literal("x0c"), Or(Literal("x0d"), Literal("x85")))))

\* the alternation of the horizontal-whitespace literals, shared by "h" and "s"
EscapeH == Or(Literal("x09"), Or(Literal(" "), Literal("xa0")))

ESCAPE_GROUPS ==
  [ w |-> Or(Range(<<"a">>, <<"z">>),
             Or(Range(<<"A">>, <<"Z">>), Or(Range(<<"0">>, <<"9">>), Literal("_")))),
    d |-> Range(<<"0">>, <<"9">>),
    v |-> EscapeV,
    h |-> EscapeH,
    s |-> Or(EscapeV, EscapeH) ]

\* parser state after __init__: the iterator position and the GroupManager
RegexParser == [it |-> 0, next_group |-> 1, finished_groups |-> {}]

\* a parse function returns its AST, the parser state it leaves, and the
\* exception it raised ("none" when it returned normally)
Ok(ast, p) == [ast |-> ast, p |-> p, err |-> "none"]

Raise(e, p) == [ast |-> None, p |-> p, err |-> e]

_peek(regex, p) == IF p.it < Len(regex) THEN regex[p.it + 1] ELSE ""

_peek_ahead(regex, p, i) == Slice(regex, p.it, p.it + i)

_eof(regex, p) == _peek(regex, p) = ""

_advance(p) == [p EXCEPT !.it = @ + 1]

is_finished(p, groupno) == groupno \in p.finished_groups

_parse_literal(regex, p, metachars) ==
  IF _peek(regex, p) = "" THEN Ok(Epsilon, p)
  ELSE IF _peek(regex, p) = "\\"
       THEN LET p1 == _advance(p)
            IN  IF _peek(regex, p1) \notin metachars
                THEN Raise("ParserError", p1)
                ELSE Ok(Literal(_peek(regex, p1)), _advance(p1))
       ELSE Ok(Literal(_peek(regex, p)), _advance(p))

_parse_set_literal(regex, p) == _parse_literal(regex, p, SET_METACHARS)

\* _consume(c) after the call that returned r: ParserError unless the next
\* character is c, which is then consumed; an exception in r propagates
_consume(regex, r, c) ==
  IF r.err # "none" THEN r
  ELSE IF _peek(regex, r.p) # c THEN Raise("ParserError", r.p)
  ELSE Ok(r.ast, _advance(r.p))

\* the node of the given type over two parsed operands, unless parsing the
\* right operand raised
Binary(type, lhs, rhs) ==
  IF rhs.err # "none" THEN rhs
  ELSE Ok(CASE type = "Range" -> Range(item(lhs.ast), item(rhs.ast))
            [] type = "Or" -> Or(lhs.ast, rhs.ast)
            [] OTHER -> Sequence(lhs.ast, rhs.ast),
          rhs.p)

RECURSIVE _parse_set_items(_, _)

\* the first item of _parse_set_items, lhs being the set literal just parsed:
\* a Range when "-" follows and is not the last character of the set
SetItem(regex, lhs) ==
  IF lhs.err # "none" THEN lhs
  ELSE IF _peek(regex, lhs.p) = "-" /\ _peek_ahead(regex, lhs.p, 2) # <<"-", "]">>
  THEN Binary("Range", lhs, _parse_set_literal(regex, _advance(lhs.p)))
  ELSE lhs

\* _parse_set_items after its first item lhs; it was entered in state p. At
\* end of input the function recurses on itself without consuming anything,
\* which Python ends with RecursionError
SetItemsRest(regex, p, lhs) ==
  IF lhs.err # "none" THEN lhs
  ELSE IF _peek(regex, lhs.p) = "]" THEN lhs
  ELSE IF _eof(regex, p) THEN Raise("RecursionError", p)
  ELSE Binary("Or", lhs, _parse_set_items(regex, lhs.p))

_parse_set_items(regex, p) ==
  SetItemsRest(regex, p, SetItem(regex, _parse_set_literal(regex, p)))

_parse_set(regex, p) ==
  _consume(regex, _parse_set_items(regex, _advance(p)), "]")

RECURSIVE _parse_digit(_, _)
\* the digits consumed (the counter is never incremented, so max_digits
\* does not limit them) and the parser state after them
_parse_digit(regex, p) ==
  IF isdigit(_peek(regex, p))
  THEN [ret |-> <<_peek(regex, p)>> \o _parse_digit(regex, _advance(p)).ret,
        p |-> _parse_digit(regex, _advance(p)).p]
  ELSE [ret |-> <<>>, p |-> p]

\* the branch of _parse_escape for a digit: digits is what _parse_digit returned
EscapeNumber(digits) ==
  IF (1 <= int(digits.ret) /\ int(digits.ret) <= 9) \/ is_finished(digits.p, int(digits.ret))
  THEN IF ~is_finished(digits.p, int(digits.ret))
       THEN Raise("ParserError", digits.p)
       ELSE Ok(BackReference(int(digits.ret)), digits.p)
  ELSE Raise("NotImplementedError", digits.p)

_parse_escape(regex, p) ==
  LET p1 == _advance(p)
      c == _peek(regex, p1)
  IN  IF ~isalnum(c)
      THEN IF c = "" THEN Raise("StopIteration", p1)
           ELSE Ok(Literal(c), _advance(p1))
      ELSE IF isdigit(c) THEN EscapeNumber(_parse_digit(regex, p1))
      ELSE IF c \in DOMAIN CHAR_ESCAPE_SEQS
      THEN Ok(Literal(CHAR_ESCAPE_SEQS[c]), _advance(p1))
      ELSE IF c \in DOMAIN ESCAPE_GROUPS
      THEN Ok(ESCAPE_GROUPS[c], _advance(p1))
      ELSE Ok(None, p1)

_parse_anchor(regex, p) ==
  IF _peek(regex, p) = "$" THEN Ok(EndAnchor, _advance(p))
  ELSE Ok(StartAnchor, _advance(p))

\* applied to the result of the atom's parse function
_parse_quantifier(regex, atom) ==
  IF atom.err # "none" THEN atom
  ELSE IF _peek(regex, atom.p) \notin QUANTIFIERS THEN atom
  ELSE IF _peek(regex, atom.p) = "*" THEN Ok(KleeneStar(atom.ast), _advance(atom.p))
  ELSE IF _peek(regex, atom.p) = "+" THEN Ok(KleenePlus(atom.ast), _advance(atom.p))
  ELSE Ok(None, _advance(atom.p))

RECURSIVE _parse_expr(_, _)
RECURSIVE _parse_term(_, _)
RECURSIVE _parse_atom(_, _)
RECURSIVE _parse_group(_, _)

\* _finish_group(groupno) and the return of _parse_group, e being the state
\* after the closing parenthesis
FinishGroup(e, groupno) ==
  IF e.err # "none" THEN e
  ELSE Ok(Group(e.ast, groupno), [e.p EXCEPT !.finished_groups = @ \cup {groupno}])

_parse_group(regex, p) ==
  FinishGroup(_consume(regex,
                       _parse_expr(regex, _advance([p EXCEPT !.next_group = @ + 1])),
                       ")"),
              p.next_group)

\* "c in '|)'" is a substring test, so it also holds for the empty string
\* that _peek returns at end of input
_parse_atom(regex, p) ==
  LET c == _peek(regex, p)
  IN  IF c = "(" THEN _parse_quantifier(regex, _parse_group(regex, p))
      ELSE IF c = "." THEN _parse_quantifier(regex, Ok(Dot, _advance(p)))
      ELSE IF c = "[" THEN _parse_quantifier(regex, _parse_set(regex, p))
      ELSE IF c \in ANCHORS THEN _parse_anchor(regex, p)
      ELSE IF c \in {"|", ")", ""} THEN Ok(Epsilon, p)
      ELSE IF c = "\\" THEN _parse_quantifier(regex, _parse_escape(regex, p))
      ELSE _parse_quantifier(regex, _parse_literal(regex, p, GLOBAL_METACHARS))

\* _parse_term after its atom lhs
TermRest(regex, lhs) ==
  IF lhs.err # "none" THEN lhs
  ELSE IF _eof(regex, lhs.p) \/ _peek(regex, lhs.p) \in INVALID_START_CHAR THEN lhs
  ELSE Binary("Sequence", lhs, _parse_term(regex, lhs.p))

_parse_term(regex, p) == TermRest(regex, _parse_atom(regex, p))

\* _parse_expr after its term lhs
ExprRest(regex, lhs) ==
  IF lhs.err # "none" THEN lhs
  ELSE IF _peek(regex, lhs.p) = "|"
  THEN Binary("Or", lhs, _parse_expr(regex, _advance(lhs.p)))
  ELSE lhs

_parse_expr(regex, p) == ExprRest(regex, _parse_term(regex, p))

\* parse after _parse_expr returned ast: anything left over is a ParserError,
\* otherwise the AST is wrapped in group 0
ParseEnd(regex, ast) ==
  IF ast.err # "none" THEN ast
  ELSE IF ~_eof(regex, ast.p) THEN Raise("ParserError", ast.p)
  ELSE Ok(Group(ast.ast, 0), ast.p)

\* RegexParser(regex).parse(): the AST, or the exception
parse(regex) == ParseEnd(regex, _parse_expr(regex, RegexParser))

(***************************************************************************)
(* Matchers, transitions and the NFA graph (finite_automata.py)            *)
(***************************************************************************)

\* Python None as the value of a transition's start_group / end_group
NoGroup == -1

CharacterMatcher(c) == [kind |-> "Character", c |-> c]

EpsilonMatcher == [kind |-> "Epsilon"]

RangeMatcher(start, end) == [kind |-> "Range", start |-> start, end |-> end]

BackReferenceMatcher(reference) == [kind |-> "BackReference", reference |-> reference]

InverseMatcher(matcher) == [kind |-> "Inverse", matcher |-> matcher]

Transition(match_symbol, target_name, start_group, end_group) ==
  [ match_symbol |-> match_symbol, target_name |-> target_name,
    start_group |-> start_group, end_group |-> end_group ]

\* NFA(): no states; state "q<i>" is the number i, and transitions[i] is the
\* list State.transitions of that state in insertion order
NFA == [transitions |-> <<>>, start_state |-> NoGroup, end_states |-> {}]

\* number of states; add_state names the new state by it
NumStates(nfa) == Cardinality(DOMAIN nfa.transitions)

add_state(nfa) ==
  [nfa EXCEPT !.transitions = @ @@ (NumStates(nfa) :> <<>>)]

add_transition(nfa, start, end, match, start_group, end_group) ==
  [nfa EXCEPT !.transitions[start] =
     Append(@, Transition(match, end, start_group, end_group))]

set_start_state(nfa, state) == [nfa EXCEPT !.start_state = state]

add_end_state(nfa, state) == [nfa EXCEPT !.end_states = @ \cup {state}]

\* State.__iter__: the transitions of a state in reverse insertion order
StateIter(transitions) ==
  [k \in 1..Len(transitions) |-> transitions[Len(transitions) + 1 - k]]

RECURSIVE MatcherMatch(_, _, _, _)
\* Matcher.match; defined when MatchRaises is "none"
MatcherMatch(m, input, i, groups) ==
  CASE m.kind = "Character" -> Len(input) > i /\ <<input[i + 1]>> = m.c
    [] m.kind = "Epsilon" -> TRUE
    [] m.kind = "Range" ->
         /\ Len(input) > i
         /\ StrLE(m.start, <<input[i + 1]>>)
         /\ StrLE(<<input[i + 1]>>, m.end)
    [] m.kind = "BackReference" ->
         \/ m.reference \notin DOMAIN groups
         \/ Slice(input, i, i + Len(groups[m.reference].substr)) = groups[m.reference].substr
    [] m.kind = "Inverse" -> ~MatcherMatch(m.matcher, input, i, groups)

RECURSIVE MatchRaises(_, _)
\* the exception Matcher.match raises: len() of the substr None of a group
\* that was opened and not closed
MatchRaises(m, groups) ==
  IF m.kind = "Inverse" THEN MatchRaises(m.matcher, groups)
  ELSE IF /\ m.kind = "BackReference"
          /\ m.reference \in DOMAIN groups
          /\ "substr" \notin DOMAIN groups[m.reference]
  THEN "TypeError" ELSE "none"

\* Matcher.is_epsilon(groups) with groups a dict; defined when
\* IsEpsilonRaises is "none"
is_epsilon(m, groups) ==
  CASE m.kind = "Character" -> FALSE
    [] m.kind = "Epsilon" -> TRUE
    [] m.kind = "Range" -> FALSE
    [] m.kind = "BackReference" ->
         /\ "substr" \in DOMAIN groups[m.reference]
         /\ groups[m.reference].substr = <<>>
    [] m.kind = "Inverse" -> FALSE

\* the exception Matcher.is_epsilon(groups) raises: groups[self.reference]
\* of a group that is not in the dict
IsEpsilonRaises(m, groups) ==
  IF m.kind = "BackReference" /\ m.reference \notin DOMAIN groups
  THEN "KeyError" ELSE "none"

\* Matcher.num_consumed(groups), called after match and is_epsilon returned
num_consumed(m, groups) ==
  CASE m.kind = "Character" -> 1
    [] m.kind = "Epsilon" -> 0
    [] m.kind = "Range" -> 1
    [] m.kind = "BackReference" -> Len(groups[m.reference].substr)
    [] m.kind = "Inverse" -> 1

is_starting_group(t) == t.start_group # NoGroup

is_ending_group(t) == t.end_group # NoGroup

is_group_transition(t) == is_starting_group(t) \/ is_ending_group(t)

is_epsilon_transition(t, groups) == is_epsilon(t.match_symbol, groups)

\* Transition.is_pure_epsilon_transition(groups)
is_pure_epsilon_transition(t, groups) ==
  is_epsilon_transition(t, groups) /\ ~is_group_transition(t)

(***************************************************************************)
(* NFABuilder (parser.py)                                                  *)
(***************************************************************************)

\* a visit returns the NFA it has extended, its (entry, exit) pair and the
\* exception it raised
Built(nfa, start, end) == [nfa |-> nfa, start |-> start, end |-> end, err |-> "none"]

BuildRaise(e) == [nfa |-> NFA, start |-> NoGroup, end |-> NoGroup, err |-> e]

\* the NFA with two fresh states s1 = n, s2 = n + 1
TwoStates(nfa) == add_state(add_state(nfa))

visit_literal(node, nfa) ==
  LET s1 == NumStates(nfa)
      s2 == s1 + 1
  IN  Built(add_transition(TwoStates(nfa), s1, s2, CharacterMatcher(item(node)),
                           NoGroup, NoGroup), s1, s2)

visit_epsilon(node, nfa) == Built(add_state(nfa), NumStates(nfa), NumStates(nfa))

visit_range(node, nfa) ==
  LET s1 == NumStates(nfa)
      s2 == s1 + 1
  IN  Built(add_transition(TwoStates(nfa), s1, s2, RangeMatcher(node.c1, node.c2),
                           NoGroup, NoGroup), s1, s2)

visit_backreference(node, nfa) ==
  LET s1 == NumStates(nfa)
      s2 == s1 + 1
  IN  Built(add_transition(TwoStates(nfa), s1, s2, BackReferenceMatcher(node.reference),
                           NoGroup, NoGroup), s1, s2)

RECURSIVE accept(_, _)

visit_sequence(node, nfa) ==
  LET l == accept(node.left, nfa)
      r == accept(node.right, l.nfa)
  IN  IF l.err # "none" THEN l
      ELSE IF r.err # "none" THEN r
      ELSE Built(add_transition(r.nfa, l.end, r.start, EpsilonMatcher, NoGroup, NoGroup),
                 l.start, r.end)

visit_or(node, nfa) ==
  LET s1 == NumStates(nfa)
      s2 == s1 + 1
      l == accept(node.left, TwoStates(nfa))
      r == accept(node.right, l.nfa)
      t1 == add_transition(r.nfa, s1, l.start, EpsilonMatcher, NoGroup, NoGroup)
      t2 == add_transition(t1, s1, r.start, EpsilonMatcher, NoGroup, NoGroup)
      t3 == add_transition(t2, l.end, s2, EpsilonMatcher, NoGroup, NoGroup)
      t4 == add_transition(t3, r.end, s2, EpsilonMatcher, NoGroup, NoGroup)
  IN  IF l.err # "none" THEN l
      ELSE IF r.err # "none" THEN r
      ELSE Built(t4, s1, s2)

visit_kleene_star(node, nfa) ==
  LET s1 == NumStates(nfa)
      s2 == s1 + 1
      l == accept(node.child, TwoStates(nfa))
      t1 == add_transition(l.nfa, s1, l.start, EpsilonMatcher, NoGroup, NoGroup)
      t2 == add_transition(t1, s1, s2, EpsilonMatcher, NoGroup, NoGroup)
      t3 == add_transition(t2, l.end, l.start, EpsilonMatcher, NoGroup, NoGroup)
      t4 == add_transition(t3, l.end, s2, EpsilonMatcher, NoGroup, NoGroup)
  IN  IF l.err # "none" THEN l
      ELSE Built(t4, s1, s2)

visit_kleene_plus(node, nfa) ==
  LET s1 == NumStates(nfa)
      s2 == s1 + 1
      l == accept(node.child, TwoStates(nfa))
      t1 == add_transition(l.nfa, s1, l.start, EpsilonMatcher, NoGroup, NoGroup)
      t2 == add_transition(t1, l.end, l.start, EpsilonMatcher, NoGroup, NoGroup)
      t3 == add_transition(t2, l.end, s2, EpsilonMatcher, NoGroup, NoGroup)
  IN  IF l.err # "none" THEN l
      ELSE Built(t3, s1, s2)

\* a visit_group that gives start_group to the transition out of the body and
\* end_group to the transition into it
visit_group_swapped(node, nfa) ==
  LET s1 == NumStates(nfa)
      s2 == s1 + 1
      l == accept(node.child, TwoStates(nfa))
      t1 == add_transition(l.nfa, s1, l.start, EpsilonMatcher, NoGroup, node.num)
      t2 == add_transition(t1, l.end, s2, EpsilonMatcher, node.num, NoGroup)
  IN  IF l.err # "none" THEN l
      ELSE Built(t2, s1, s2)

visit_group(node, nfa) ==
  LET s1 == NumStates(nfa)
      s2 == s1 + 1
      l == accept(node.child, TwoStates(nfa))
      t1 == add_transition(l.nfa, s1, l.start, EpsilonMatcher, node.num, NoGroup)
      t2 == add_transition(t1, l.end, s2, EpsilonMatcher, NoGroup, node.num)
  IN  IF l.err # "none" THEN l
      ELSE Built(t2, s1, s2)

\* node.accept(builder): dispatch on the node kind. None has no accept, and
\* NFABuilder has no visit_dot, visit_start_anchor or visit_end_anchor
accept(node, nfa) ==
  CASE node.type = "Literal" -> visit_literal(node, nfa)
    [] node.type = "Epsilon" -> visit_epsilon(node, nfa)
    [] node.type = "Range" -> visit_range(node, nfa)
    [] node.type = "BackReference" -> visit_backreference(node, nfa)
    [] node.type = "Sequence" -> visit_sequence(node, nfa)
    [] node.type = "Or" -> visit_or(node, nfa)
    [] node.type = "KleeneStar" -> visit_kleene_star(node, nfa)
    [] node.type = "KleenePlus" -> visit_kleene_plus(node, nfa)
    [] node.type = "Group" -> visit_group(node, nfa)
    [] OTHER -> BuildRaise("AttributeError")

get_nfa(b) ==
  IF b.err # "none" THEN [nfa |-> NFA, err |-> b.err]
  ELSE [nfa |-> add_end_state(set_start_state(b.nfa, b.start), b.end), err |-> "none"]

\* Regex.build_nfa(ast)
build_nfa(ast) == get_nfa(accept(ast, NFA))

(***************************************************************************)
(* Optimizer (finite_automata.py) and Regex.__init__ (regex.py)            *)
(***************************************************************************)

\* the optimization levels
O0 == <<"O", "0">>

O1 == <<"O", "1">>

\* Matcher.is_epsilon(None), as Transition.is_epsilon_transition() calls it
\* without captures
is_epsilon_without_groups(m) == m.kind \in {"Epsilon", "BackReference"}

\* the targets the while loop of _calculate_epsilon_closure appends to the
\* frontier when it pops state q
EpsilonTargets(nfa, q) ==
  {nfa.transitions[q][n].target_name : n \in
     {k \in 1..Len(nfa.transitions[q]) :
        /\ is_epsilon_without_groups(nfa.transitions[q][k].match_symbol)
        /\ ~is_group_transition(nfa.transitions[q][k])}}

\* Optimizer._transition_frontier(state), as a set
_transition_frontier(nfa, state) ==
  {nfa.transitions[state][n].target_name : n \in 1..Len(nfa.transitions[state])}

\* the states popped so far together with those appended for them
EpsilonStep(nfa, popped) == popped \cup UNION {EpsilonTargets(nfa, q) : q \in popped}

RECURSIVE EpsilonReach(_, _)
\* the states the while loop pops when it starts from frontier and ends
EpsilonReach(nfa, frontier) ==
  IF EpsilonStep(nfa, frontier) = frontier THEN frontier
  ELSE EpsilonReach(nfa, EpsilonStep(nfa, frontier))

\* the while loop of _calculate_epsilon_closure never empties its frontier:
\* it keeps no record of the states it has popped, so a state that is
\* appended again for one of its own successors is popped for ever
ClosureDiverges(nfa) ==
  \E q \in DOMAIN nfa.transitions : q \in EpsilonReach(nfa, EpsilonTargets(nfa, q))

\* Optimizer._calculate_epsilon_closure(), when its loops end
_calculate_epsilon_closure(nfa) ==
  [state \in DOMAIN nfa.transitions |-> EpsilonReach(nfa, _transition_frontier(nfa, state))]

\* Optimizer(nfa)
Optimizer(nfa) == [nfa |-> nfa, epsilon_closure |-> _calculate_epsilon_closure(nfa)]

\* EpsilonEliminator(optimizer).optimize(): pass
EpsilonEliminator(optimizer) == optimizer

\* Optimizer.update()
update(optimizer) ==
  [optimizer EXCEPT !.epsilon_closure = _calculate_epsilon_closure(optimizer.nfa)]

\* Optimizer.optimize(level): the NFA it returns
optimize(optimizer, level) ==
  IF int(<<level[2]>>) >= 1 THEN update(EpsilonEliminator(optimizer)).nfa
  ELSE optimizer.nfa

\* Optimizer(self.build_nfa(self.ast)).optimize(opt), b being what build_nfa
\* returned; "diverges" stands for a constructor that never returns
Optimized(b, opt) ==
  IF b.err # "none" THEN b
  ELSE IF ClosureDiverges(b.nfa) THEN [nfa |-> NFA, err |-> "diverges"]
  ELSE [nfa |-> optimize(Optimizer(b.nfa), opt), err |-> "none"]

\* Regex.__init__ after parse returned ast
RegexInit(ast, opt) ==
  IF ast.err # "none" THEN [nfa |-> NFA, err |-> ast.err]
  ELSE Optimized(build_nfa(ast.ast), opt)

\* Regex.__init__: the compiled NFA, or the exception the constructor raised
Regex(regex, opt) == RegexInit(parse(regex), opt)

(***************************************************************************)
(* The executor (finite_automata.py, NFA)                                  *)
(***************************************************************************)

\* _Match(start): end and substr are None, modelled as absent fields
_Match(start) == [start |-> start]

TraversalState(start, end, state, cur_cycle, groups) ==
  [start |-> start, end |-> end, state |-> state, cur_cycle |-> cur_cycle, groups |-> groups]

Match(groups) == [groups |-> groups]

\* Match.group(i), Match.start(i), Match.end(i), Match.span(i)
MatchGroup(m, i) == m.groups[i].substr

MatchStart(m, i) == m.groups[i].start

MatchEnd(m, i) == m.groups[i].end

MatchSpan(m, i) == <<m.groups[i].start, m.groups[i].end>>

\* TraversalState.start_group(name)
start_group(path, name) ==
  [path EXCEPT !.groups = (name :> _Match(path.end)) @@ @]

\* an end_group that takes the substring from the start of the input
end_group_from_zero(path, name, s) ==
  [path EXCEPT !.groups[name] =
     [start |-> @.start, end |-> path.end, substr |-> Slice(s, 0, path.end)]]

\* TraversalState.end_group(name, s); raises KeyError when name is not in groups
end_group(path, name, s) ==
  [path EXCEPT !.groups[name] =
     [start |-> @.start, end |-> path.end, substr |-> Slice(s, @.start, path.end)]]

\* the frame on which _search starts at index start
InitialPath(nfa, start) == TraversalState(start, start, nfa.start_state, {}, <<>>)

\* the exception the body of the for loop of _search raises on transition t
\* of the popped frame: from match, from is_epsilon_transition, or from
\* end_group on a group that was never opened
TransitionRaises(path, t, s) ==
  IF MatchRaises(t.match_symbol, path.groups) # "none"
  THEN MatchRaises(t.match_symbol, path.groups)
  ELSE IF ~MatcherMatch(t.match_symbol, s, path.end, path.groups) THEN "none"
  ELSE IF IsEpsilonRaises(t.match_symbol, path.groups) # "none"
  THEN IsEpsilonRaises(t.match_symbol, path.groups)
  ELSE IF is_epsilon_transition(t, path.groups) /\ path.state \in path.cur_cycle THEN "none"
  ELSE IF ~is_starting_group(t) /\ is_ending_group(t) /\ t.end_group \notin DOMAIN path.groups
  THEN "KeyError"
  ELSE "none"

\* the for loop of _search appends a new frame for transition t
Pushes(path, t, s) ==
  /\ MatcherMatch(t.match_symbol, s, path.end, path.groups)
  /\ ~(is_epsilon_transition(t, path.groups) /\ path.state \in path.cur_cycle)

\* the frame the for loop of _search appends for transition t
new_path(path, t, s) ==
  LET new_cycle == IF is_epsilon_transition(t, path.groups)
                   THEN path.cur_cycle \cup {path.state}
                   ELSE {}
      np == TraversalState(path.start,
                           path.end + num_consumed(t.match_symbol, path.groups),
                           t.target_name, new_cycle, path.groups)
  IN  IF is_starting_group(t) THEN start_group(np, t.start_group)
      ELSE IF is_ending_group(t) THEN end_group(np, t.end_group, s)
      ELSE np

RECURSIVE SharedPush(_, _, _, _)
\* the frames pushed for the transitions taken when the new frame gets the
\* capture map of the popped frame itself, not a copy: each update is made
\* on the one map, which the next frame is created with
SharedPush(path, taken, s, pushed) ==
  IF Len(pushed) = Len(taken) THEN pushed
  ELSE SharedPush([path EXCEPT !.groups = new_path(path, taken[Len(pushed) + 1], s).groups],
                  taken, s,
                  Append(pushed, new_path(path, taken[Len(pushed) + 1], s)))

\* every frame of the stack holds the one capture map
SharedStack(stack) ==
  [k \in 1..Len(stack) |-> [stack[k] EXCEPT !.groups = stack[Len(stack)].groups]]

\* an iteration of the loop of _search that does not copy the capture map
_search_loop_shared(nfa, s, paths) ==
  LET path == paths[Len(paths)]
      rest == SubSeq(paths, 1, Len(paths) - 1)
      ts == StateIter(nfa.transitions[path.state])
      raising == {k \in 1..Len(ts) : TransitionRaises(path, ts[k], s) # "none"}
      first == CHOOSE k \in raising : \A j \in raising : k <= j
      taken == SelectSeq(ts, LAMBDA t : Pushes(path, t, s))
  IN  IF path.state \in nfa.end_states
      THEN [paths |-> rest, returned |-> TRUE, ret |-> Match(path.groups), exc |-> "none"]
      ELSE IF raising # {}
      THEN [paths |-> rest, returned |-> FALSE, ret |-> None,
            exc |-> TransitionRaises(path, ts[first], s)]
      ELSE [paths |-> IF taken = <<>> THEN rest
                      ELSE SharedStack(rest \o SharedPush(path, taken, s, <<>>)),
            returned |-> FALSE, ret |-> None, exc |-> "none"]

\* one iteration of the while loop of _search on the stack paths (top last):
\* the stack after it, whether _search returned and what, or what it raised
_search_loop(nfa, s, paths) ==
  LET path == paths[Len(paths)]
      rest == SubSeq(paths, 1, Len(paths) - 1)
      ts == StateIter(nfa.transitions[path.state])
      raising == {k \in 1..Len(ts) : TransitionRaises(path, ts[k], s) # "none"}
      first == CHOOSE k \in raising : \A j \in raising : k <= j
      taken == SelectSeq(ts, LAMBDA t : Pushes(path, t, s))
  IN  IF path.state \in nfa.end_states
      THEN [paths |-> rest, returned |-> TRUE, ret |-> Match(path.groups), exc |-> "none"]
      ELSE IF raising # {}
      THEN [paths |-> rest, returned |-> FALSE, ret |-> None,
            exc |-> TransitionRaises(path, ts[first], s)]
      ELSE [paths |-> rest \o [k \in 1..Len(taken) |-> new_path(path, taken[k], s)],
            returned |-> FALSE, ret |-> None, exc |-> "none"]

RECURSIVE _search_run(_, _, _)
\* the while loop of _search run to its end: the value returned (None or a
\* Match) and the exception raised
_search_run(nfa, s, paths) ==
  IF paths = <<>> THEN [ret |-> None, exc |-> "none"]
  ELSE LET r == _search_loop(nfa, s, paths)
       IN  IF r.returned \/ r.exc # "none" THEN [ret |-> r.ret, exc |-> r.exc]
           ELSE _search_run(nfa, s, r.paths)

\* NFA._search(s, start)
_search(nfa, s, start) == _search_run(nfa, s, <<InitialPath(nfa, start)>>)

(***************************************************************************)
(* Patterns and inputs                                                     *)
(***************************************************************************)

P_aa == <<"a", "a">>

P_a_or_empty == <<"a", "|">>

P_a_star == <<"a", "*">>

P_a_plus == <<"a", "+">>

P_backref == <<"a", "(", "b", "|", "c", ")", "+", "\\", "1">>

P_star_backref == <<"(", "a", ")", "*", "\\", "1">>

P_or_backref == <<"(", "a", ")", "|", "b", "\\", "1">>

P_ident == <<"(", "(", "[", "A", "-", "Z", "a", "-", "z", "_", "]", "+", ")", "[", "0", "-", "9", "]", "+", ")", " ", "\\", "2", "\\", "1">>

P_abcd_efgh == <<"a", "b", "c", "d", "|", "e", "f", "g", "h">>

P_d_or_dd == <<"\\", "d", "|", "\\", "d", "\\", "d">>

P_gd_or_gd == <<"(", "\\", "d", ")", "|", "(", "\\", "d", ")">>

P_d_or_empty == <<"\\", "d", "|">>

P_d_star == <<"\\", "d", "*">>

P_d_plus == <<"\\", "d", "+">>

P_gd_backref == <<"(", "\\", "d", ")", "\\", "1">>

P_gdstar_backref == <<"(", "\\", "d", ")", "*", "\\", "1">>

P_g_or_g == <<"(", ")", "|", "(", ")">>

P_empty == <<>>

P_unclosed == <<"(", "a">>

P_anchor == <<"^", "a">>

P_astar_backref_star == <<"(", "a", "*", ")", "\\", "1", "*">>

P_empty_group_star == <<"(", ")", "*">>

P_gastar_star == <<"(", "a", "*", ")", "*">>

P_a_end == <<"a", "$">>

P_empty_or_a_star == <<"(", "|", "a", ")", "*">>

P_empty_or_d_star == <<"(", "|", "\\", "d", ")", "*">>

P_d_or_empty_star == <<"(", "\\", "d", "|", ")", "*">>

P_set_bracket_dash == <<"[", "]", "-", "]">>

P_set_a_z == <<"[", "a", "-", "z", "]">>

P_set_test == <<"(", "a", "+", "|", "b", "*", "c", ")", "[", "]", "-", "]", "[", "a", "-", "z", "]", "+">>

P_ab_set_abc == <<"a", "b", "[", "a", "b", "c", "]">>

P_backref_star == <<"(", "a", ")", "\\", "1", "*">>

P_gd_backref_plus == <<"(", "\\", "d", ")", "\\", "1", "+">>

Patterns ==
  { P_aa, P_a_or_empty, P_a_star, P_a_plus, P_backref,
    P_star_backref, P_or_backref, P_ident, P_abcd_efgh, P_d_or_dd,
    P_gd_or_gd, P_d_or_empty, P_d_star, P_d_plus, P_gd_backref,
    P_gdstar_backref, P_g_or_g, P_empty, P_unclosed, P_anchor,
    P_empty_or_a_star, P_empty_or_d_star, P_d_or_empty_star,
    P_set_bracket_dash, P_set_a_z, P_set_test, P_ab_set_abc,
    P_backref_star, P_gd_backref_plus, P_a_end,
    P_astar_backref_star, P_empty_group_star, P_gastar_star }

S_aabyeh == <<"a", "a", "b", "y", "e", "h">>

S_biujwk == <<"b", "i", "u", "j", "w", "k">>

S_aaaa == <<"a", "a", "a", "a">>

S_bcdaaaa == <<"b", "c", "d", "a", "a", "a", "a">>

S_abb == <<"a", "b", "b">>

S_abcc == <<"a", "b", "c", "c">>

S_abcb == <<"a", "b", "c", "b">>

S_ad == <<"a", "d">>

S_ident == <<"1", "2", "3", "a", "b", "c", "1", "2", "3", " ", "a", "b", "c", "a", "b", "c", "1", "2", "3">>

S_abcdefgh == <<"a", "b", "c", "d", "e", "f", "g", "h">>

S_abcd == <<"a", "b", "c", "d">>

S_aaaab == <<"a", "a", "a", "a", "b">>

S_a_dash_w == <<"a", "-", "w">>

S_c_bracket_aby == <<"c", "]", "a", "b", "y", "{", "z">>

S_w == <<"w">>

S_aba == <<"a", "b", "a">>

S_abc == <<"a", "b", "c">>

\* length bound of the enumerated inputs
MaxInputLen == 2

InputAlphabet == {"a", "b", "1"}

Inputs ==
  UNION {[1..n -> InputAlphabet] : n \in 0..MaxInputLen}
    \cup { S_aabyeh, S_biujwk, S_aaaa, S_bcdaaaa, S_abb,
           S_abcc, S_abcb, S_ad, S_ident, S_abcdefgh,
           S_abcd, S_aaaab, S_a_dash_w, S_c_bracket_aby, S_w,
           S_aba, S_abc }

(***************************************************************************)
(* The program: a compiled Regex and the calls made on it                  *)
(***************************************************************************)

VARIABLES
  regex,    \* the pattern the Regex is constructed from
  opt,      \* Regex.opt, the optimization level given to the constructor
  input,    \* the string s the operations are called on
  nfa,      \* Regex.nfa
  raised,   \* the exception that ended the constructor or the call, or "none"
  pc,       \* "__init__", "_calculate_epsilon_closure" (in its while loop for
            \* ever), "idle", "_search" (in the while loop), "_search_ret",
            \* "done", "raised"
  op,       \* the operation called: "match", "search" or "finditer"
  from,     \* the start argument of NFA.search
  i,        \* the index _search was last called with
  paths,    \* the frame stack of _search, top last
  found,    \* the value the last _search returned
  ret,      \* the value match or search returned
  cur,      \* the cursor of finditer
  yielded,  \* the matches finditer has yielded, in order
  runs      \* the outcomes of the calls made earlier on this Regex, in order

vars == <<regex, opt, input, nfa, raised, pc, op, from, i, paths, found, ret, cur, yielded, runs>>

\* the levels the constructor is called with
Levels == {O0, O1}

\* the variables other than regex, opt and input before the constructor has run
Unconstructed ==
  /\ nfa = NFA
  /\ raised = "none"
  /\ pc = "__init__"
  /\ op = "none"
  /\ from = 0
  /\ i = 0
  /\ paths = <<>>
  /\ found = None
  /\ ret = None
  /\ cur = 0
  /\ yielded = <<>>
  /\ runs = <<>>

Init ==
  /\ regex \in Patterns
  /\ opt \in Levels
  /\ input \in Inputs
  /\ Unconstructed

\* Regex(regex, opt): the constructor returns with self.nfa set, raises, or
\* stays in the closure computation of the Optimizer
__init__ ==
  /\ pc = "__init__"
  /\ nfa' = Regex(regex, opt).nfa
  /\ raised' = IF Regex(regex, opt).err = "diverges" THEN "none" ELSE Regex(regex, opt).err
  /\ pc' = CASE Regex(regex, opt).err = "none" -> "idle"
            [] Regex(regex, opt).err = "diverges" -> "_calculate_epsilon_closure"
            [] OTHER -> "raised"
  /\ UNCHANGED <<regex, opt, runs, input, op, from, i, paths, found, ret, cur, yielded>>

\* Regex.match(s): NFA.match calls _search(s, 0)
match ==
  /\ pc = "idle"
  /\ op' = "match"
  /\ i' = 0
  /\ paths' = <<InitialPath(nfa, 0)>>
  /\ pc' = "_search"
  /\ UNCHANGED <<regex, opt, runs, input, nfa, raised, from, found, ret, cur, yielded>>

\* NFA.search(s, start): the first _search of the for loop, or None when
\* range(start, len(s) + 1) is empty
search ==
  /\ pc = "idle"
  /\ \E start \in 0..(Len(input) + 1) :
       /\ op' = "search"
       /\ from' = start
       /\ IF start <= Len(input)
          THEN /\ i' = start
               /\ paths' = <<InitialPath(nfa, start)>>
               /\ pc' = "_search"
               /\ ret' = ret
          ELSE /\ ret' = None
               /\ pc' = "done"
               /\ UNCHANGED <<i, paths>>
  /\ UNCHANGED <<regex, opt, runs, input, nfa, raised, found, cur, yielded>>

\* a finditer whose cursor is kept from the call before instead of starting
\* at 0
finditer_keeps_cursor ==
  /\ pc = "idle"
  /\ op' = "finditer"
  /\ cur' = cur
  /\ IF cur > Len(input)
     THEN /\ pc' = "done"
          /\ UNCHANGED <<from, i, paths>>
     ELSE /\ from' = cur
          /\ i' = cur
          /\ paths' = <<InitialPath(nfa, cur)>>
          /\ pc' = "_search"
  /\ UNCHANGED <<regex, opt, runs, input, nfa, raised, found, ret, yielded>>

\* Regex.finditer(s) up to the first _search of search(s, 0)
finditer ==
  /\ pc = "idle"
  /\ op' = "finditer"
  /\ cur' = 0
  /\ from' = 0
  /\ i' = 0
  /\ paths' = <<InitialPath(nfa, 0)>>
  /\ pc' = "_search"
  /\ UNCHANGED <<regex, opt, runs, input, nfa, raised, found, ret, yielded>>

\* _search pops a frame in an accepting state and returns its Match
_search_accept ==
  /\ pc = "_search"
  /\ paths # <<>>
  /\ _search_loop(nfa, input, paths).returned
  /\ found' = _search_loop(nfa, input, paths).ret
  /\ paths' = _search_loop(nfa, input, paths).paths
  /\ pc' = "_search_ret"
  /\ UNCHANGED <<regex, opt, runs, input, nfa, raised, op, from, i, ret, cur, yielded>>

\* bound on how far past the end of the input the model follows a cursor
MaxOverrun == 1

\* _search pops a frame and pushes its successors
_search_expand ==
  /\ pc = "_search"
  /\ paths # <<>>
  /\ paths[Len(paths)].end <= Len(input) + MaxOverrun
  /\ ~_search_loop(nfa, input, paths).returned
  /\ _search_loop(nfa, input, paths).exc = "none"
  /\ paths' = _search_loop(nfa, input, paths).paths
  /\ UNCHANGED <<regex, opt, runs, input, nfa, raised, pc, op, from, i, found, ret, cur, yielded>>

\* an exception leaves _search and its callers
_search_raise ==
  /\ pc = "_search"
  /\ paths # <<>>
  /\ _search_loop(nfa, input, paths).exc # "none"
  /\ raised' = _search_loop(nfa, input, paths).exc
  /\ pc' = "raised"
  /\ UNCHANGED <<regex, opt, runs, input, nfa, op, from, i, paths, found, ret, cur, yielded>>

\* the stack is empty: _search returns None
_search_fail ==
  /\ pc = "_search"
  /\ paths = <<>>
  /\ found' = None
  /\ pc' = "_search_ret"
  /\ UNCHANGED <<regex, opt, runs, input, nfa, raised, op, from, i, paths, ret, cur, yielded>>

\* NFA.match returns what _search returned
match_return ==
  /\ pc = "_search_ret"
  /\ op = "match"
  /\ ret' = found
  /\ pc' = "done"
  /\ UNCHANGED <<regex, opt, runs, input, nfa, raised, op, from, i, paths, found, cur, yielded>>

\* NFA.search returns the first Match of its loop
search_return ==
  /\ pc = "_search_ret"
  /\ op = "search"
  /\ found # None
  /\ ret' = found
  /\ pc' = "done"
  /\ UNCHANGED <<regex, opt, runs, input, nfa, raised, op, from, i, paths, found, cur, yielded>>

\* the for loop of NFA.search goes on to the next index
search_next ==
  /\ pc = "_search_ret"
  /\ op \in {"search", "finditer"}
  /\ found = None
  /\ i < Len(input)
  /\ i' = i + 1
  /\ paths' = <<InitialPath(nfa, i + 1)>>
  /\ pc' = "_search"
  /\ UNCHANGED <<regex, opt, runs, input, nfa, raised, op, from, found, ret, cur, yielded>>

\* the for loop of NFA.search is exhausted: search returns None, which also
\* ends the while loop of finditer
search_none ==
  /\ pc = "_search_ret"
  /\ op \in {"search", "finditer"}
  /\ found = None
  /\ i = Len(input)
  /\ ret' = IF op = "search" THEN None ELSE ret
  /\ pc' = "done"
  /\ UNCHANGED <<regex, opt, runs, input, nfa, raised, op, from, i, paths, found, cur, yielded>>

\* a cursor that is not moved past an empty match
NextCurNoStep(m) == MatchEnd(m, 0)

\* the cursor of finditer after it yielded m
NextCur(m) ==
  IF MatchEnd(m, 0) = MatchStart(m, 0) THEN MatchEnd(m, 0) + 1 ELSE MatchEnd(m, 0)

\* finditer yields the Match search returned, moves its cursor and either
\* stops or calls search again
finditer_yield ==
  /\ pc = "_search_ret"
  /\ op = "finditer"
  /\ found # None
  /\ yielded' = Append(yielded, found)
  /\ cur' = NextCur(found)
  /\ IF NextCur(found) > Len(input)
     THEN /\ pc' = "done"
          /\ UNCHANGED <<from, i, paths>>
     ELSE /\ from' = NextCur(found)
          /\ i' = NextCur(found)
          /\ paths' = <<InitialPath(nfa, NextCur(found))>>
          /\ pc' = "_search"
  /\ UNCHANGED <<regex, opt, runs, input, nfa, raised, op, found, ret>>

Next ==
  \/ __init__
  \/ match
  \/ search
  \/ finditer
  \/ _search_accept
  \/ _search_expand
  \/ _search_raise
  \/ _search_fail
  \/ match_return
  \/ search_return
  \/ search_next
  \/ search_none
  \/ finditer_yield

Spec == Init /\ [][Next]_vars

(***************************************************************************)
(* The constructor alone, on every short pattern                           *)
(***************************************************************************)

\* length bound of the enumerated patterns
MaxPatternLen == 4

PatternAlphabet == {"(", ")", "[", "]", "\\", "0", "1", "a", "^", "*", "-"}

CompilePatterns ==
  Patterns \cup UNION {[1..n -> PatternAlphabet] : n \in 0..MaxPatternLen}

InitCompile ==
  /\ regex \in CompilePatterns
  /\ opt \in Levels
  /\ input = <<>>
  /\ Unconstructed

SpecCompile == InitCompile /\ [][__init__]_vars

(***************************************************************************)
(* An NFA built by hand with the methods of NFA, as test_nfa.py does, and   *)
(* the calls made on it                                                    *)
(***************************************************************************)

\* bounds of the NFAs built by hand
MaxStates == 2

MaxTransitions == 2

\* the number of transitions of the NFA
NumTransitions(n) ==
  LET RECURSIVE Sum(_)
      Sum(k) == IF k < 0 THEN 0 ELSE Len(n.transitions[k]) + Sum(k - 1)
  IN  Sum(NumStates(n) - 1)

\* nfa = fa.NFA(), nothing added to it yet
InitNFA ==
  /\ regex = <<>>
  /\ opt = O0
  /\ input \in Inputs
  /\ nfa = NFA
  /\ raised = "none"
  /\ pc = "build"
  /\ op = "none"
  /\ from = 0
  /\ i = 0
  /\ paths = <<>>
  /\ found = None
  /\ ret = None
  /\ cur = 0
  /\ yielded = <<>>
  /\ runs = <<>>

nfa_add_state ==
  /\ pc = "build"
  /\ NumStates(nfa) < MaxStates
  /\ nfa' = add_state(nfa)
  /\ UNCHANGED <<regex, opt, runs, input, raised, pc, op, from, i, paths, found, ret, cur, yielded>>

nfa_set_start_state ==
  /\ pc = "build"
  /\ \E state \in DOMAIN nfa.transitions : nfa' = set_start_state(nfa, state)
  /\ UNCHANGED <<regex, opt, runs, input, raised, pc, op, from, i, paths, found, ret, cur, yielded>>

nfa_add_end_state ==
  /\ pc = "build"
  /\ \E state \in DOMAIN nfa.transitions : nfa' = add_end_state(nfa, state)
  /\ UNCHANGED <<regex, opt, runs, input, raised, pc, op, from, i, paths, found, ret, cur, yielded>>

\* the matchers given to add_transition: a character, or the inverse of one
HandMatchers ==
  {CharacterMatcher(<<"a">>), CharacterMatcher(<<"b">>), InverseMatcher(CharacterMatcher(<<"a">>))}

\* add_transition(start, end, match); start_group and end_group keep their
\* default None
nfa_add_transition ==
  /\ pc = "build"
  /\ NumTransitions(nfa) < MaxTransitions
  /\ \E start \in DOMAIN nfa.transitions, end \in DOMAIN nfa.transitions, m \in HandMatchers :
       nfa' = add_transition(nfa, start, end, m, NoGroup, NoGroup)
  /\ UNCHANGED <<regex, opt, runs, input, raised, pc, op, from, i, paths, found, ret, cur, yielded>>

\* the NFA has its start state: the test goes on to call it
nfa_built ==
  /\ pc = "build"
  /\ nfa.start_state # NoGroup
  /\ pc' = "idle"
  /\ UNCHANGED <<regex, opt, runs, input, nfa, raised, op, from, i, paths, found, ret, cur, yielded>>

NextNFA ==
  \/ nfa_add_state
  \/ nfa_set_start_state
  \/ nfa_add_end_state
  \/ nfa_add_transition
  \/ nfa_built
  \/ match
  \/ search
  \/ _search_accept
  \/ _search_expand
  \/ _search_fail
  \/ match_return
  \/ search_return
  \/ search_next
  \/ search_none

SpecNFA == InitNFA /\ [][NextNFA]_vars

(***************************************************************************)
(* Several calls, one after the other, on the same Regex and the same      *)
(* string, as the tests make them                                          *)
(***************************************************************************)

\* bound on the number of calls that are followed by another one
MaxEarlierRuns == 1

\* what the call that has just ended gave its caller: the exception it
\* raised, the value match or search returned, or the matches finditer yielded
Outcome ==
  [op |-> op,
   start |-> IF op = "search" THEN from ELSE 0,
   raised |-> raised,
   ret |-> IF raised = "none" /\ op \in {"match", "search"} THEN ret ELSE None,
   yielded |-> IF raised = "none" /\ op = "finditer" THEN yielded ELSE <<>>]

\* the call has returned or raised and the test goes on to its next call on
\* the same Regex; the frame stack, the cursor and the return value were
\* locals of the call that ended
again ==
  /\ pc \in {"done", "raised"}
  /\ op # "none"
  /\ Len(runs) < MaxEarlierRuns
  /\ runs' = Append(runs, Outcome)
  /\ raised' = "none"
  /\ yielded' = <<>>
  /\ pc' = "idle"
  /\ UNCHANGED <<regex, opt, input, nfa, op, from, i, paths, found, ret, cur>>

NextTwice ==
  \/ Next
  \/ again

\* the calls are repeated on the enumerated strings
InitTwice ==
  /\ regex \in Patterns
  /\ opt \in Levels
  /\ input \in UNION {[1..n -> InputAlphabet] : n \in 0..MaxInputLen}
  /\ Unconstructed

SpecTwice == InitTwice /\ [][NextTwice]_vars

(***************************************************************************)
(* Properties                                                              *)
(***************************************************************************)

\* a call has ended by returning
Returned(o) == pc = "done" /\ op = o

\* s starts with prefix
StartsWith(s, prefix) == Len(prefix) <= Len(s) /\ SubSeq(s, 1, Len(prefix)) = prefix

\* the pattern is a nonempty run of ordinary characters
OrdinaryPattern(pattern) ==
  /\ pattern # <<>>
  /\ \A k \in 1..Len(pattern) : pattern[k] \notin GLOBAL_METACHARS

\* the number of consecutive characters c at the start of s
LeadingRun(s, c) ==
  IF \A k \in 1..Len(s) : s[k] = c THEN Len(s)
  ELSE (CHOOSE k \in 1..Len(s) : s[k] # c /\ \A j \in 1..(k - 1) : s[j] = c) - 1

\* C1: a pattern of ordinary characters c1..cn matches, from index 0, exactly
\* the inputs that start with c1..cn, with group(0) = c1..cn and span (0, n);
\* on every other input match returns None.
C1_OrdinaryPatternMatchesPrefix ==
  (Returned("match") /\ OrdinaryPattern(regex)) =>
    IF StartsWith(input, regex)
    THEN /\ ret # None
         /\ MatchGroup(ret, 0) = regex
         /\ MatchSpan(ret, 0) = <<0, Len(regex)>>
    ELSE ret = None

\* the AST of the pattern, inside the group 0 that parse wraps around it
PatternAst == parse(regex).ast.child

\* the pattern is an alternation L|R at its top level
IsAlternation == parse(regex).err = "none" /\ PatternAst.type = "Or"

\* what _search returns from index start on the NFA built from one
\* alternative alone (as group 0, its inner groups keeping their numbers)
AlternativeAlone(side, start) == _search(build_nfa(Group(side, 0)).nfa, input, start)

\* alternative side of the pattern produces a match that begins at index start
CanMatch(side, start) ==
  /\ AlternativeAlone(side, start).exc = "none"
  /\ AlternativeAlone(side, start).ret # None

\* C2: when both alternatives of L|R can produce a match that begins at the
\* index where the returned match begins, match and search return the match
\* of the right alternative R.
C2_RightAlternativeReturned ==
  (pc = "done" /\ op \in {"match", "search"} /\ IsAlternation /\ ret # None) =>
    ((CanMatch(PatternAst.left, MatchStart(ret, 0)) /\ CanMatch(PatternAst.right, MatchStart(ret, 0)))
       => ret = AlternativeAlone(PatternAst.right, MatchStart(ret, 0)).ret)

\* the pattern has the form X| : an alternation whose text ends with the
\* bar of an empty right alternative
EndsWithEmptyAlternative(pattern) ==
  /\ pattern # <<>>
  /\ pattern[Len(pattern)] = "|"
  /\ (Len(pattern) = 1 \/ pattern[Len(pattern) - 1] # "\\")
  /\ Regex(pattern, O0).err = "none"

\* C3: for a pattern X| match succeeds on every input, and its group(0) is
\* the empty string with span (0, 0), also when X matches at index 0.
C3_EmptyAlternativeWins ==
  (op = "match" /\ pc \in {"done", "raised"} /\ EndsWithEmptyAlternative(regex)) =>
    /\ pc = "done"
    /\ ret # None
    /\ MatchGroup(ret, 0) = <<>>
    /\ MatchSpan(ret, 0) = <<0, 0>>

\* the pattern is x* or x+ for an ordinary character x
QuantifiedLiteral(pattern) ==
  /\ Len(pattern) = 2
  /\ pattern[1] \notin GLOBAL_METACHARS
  /\ pattern[2] \in {"*", "+"}

\* C4: x* and x+ are greedy: on an input that begins with exactly n >= 1
\* consecutive x, match returns all n of them as group(0).
C4_GreedyQuantifier ==
  (Returned("match") /\ QuantifiedLiteral(regex) /\ LeadingRun(input, regex[1]) >= 1) =>
    /\ ret # None
    /\ MatchGroup(ret, 0) = SubSeq(input, 1, LeadingRun(input, regex[1]))
    /\ MatchSpan(ret, 0) = <<0, LeadingRun(input, regex[1])>>

\* C5: a+ needs one occurrence (None on the empty input from match and
\* search, a match on "a" and "aa"), and a* matches on every input.
C5_PlusNeedsOneStarNone ==
  /\ (pc = "done" /\ op \in {"match", "search"} /\ from = 0 /\ regex = P_a_plus /\ input = <<>>)
       => ret = None
  /\ (Returned("match") /\ regex = P_a_plus /\ input \in {<<"a">>, <<"a", "a">>})
       => (ret # None /\ MatchGroup(ret, 0) = input)
  /\ (pc = "done" /\ op \in {"match", "search"} /\ from = 0 /\ regex = P_a_star)
       => ret # None

\* the frame on top of the stack of _search
Top == paths[Len(paths)]

\* the transitions of the state of the top frame that are back-references
\* to group k
BackRefTransitions(k) ==
  {n \in 1..Len(nfa.transitions[Top.state]) :
     nfa.transitions[Top.state][n].match_symbol = BackReferenceMatcher(k)}

\* the top frame is about to be expanded by the loop of _search
Expanding == pc = "_search" /\ paths # <<>> /\ Top.state \notin nfa.end_states

\* C6: a back-reference to a recorded group k matches at the cursor iff the
\* input there equals the substring recorded for k, and then consumes its
\* length; a(b|c)+\1 matches abb as abb and abcc as abcc, and matches
\* neither abcb nor ad.
C6_BackReferenceMatchesCapture ==
  /\ Expanding =>
       \A k \in DOMAIN Top.groups : \A n \in BackRefTransitions(k) :
         LET t == nfa.transitions[Top.state][n]
             g == Top.groups[k].substr
         IN  /\ Pushes(Top, t, input) <=>
                  (Top.end + Len(g) <= Len(input)
                     /\ SubSeq(input, Top.end + 1, Top.end + Len(g)) = g
                     /\ ~(g = <<>> /\ Top.state \in Top.cur_cycle))
             /\ Pushes(Top, t, input) => new_path(Top, t, input).end = Top.end + Len(g)
  /\ (Returned("match") /\ regex = P_backref /\ input \in {S_abb, S_abcc})
       => (ret # None /\ MatchGroup(ret, 0) = input)
  /\ (Returned("match") /\ regex = P_backref /\ input \in {S_abcb, S_ad})
       => ret = None

\* the top frame has a back-reference transition to a group its captures
\* do not hold
UnrecordedBackRef ==
  /\ Expanding
  /\ \E n \in 1..Len(nfa.transitions[Top.state]) :
       /\ nfa.transitions[Top.state][n].match_symbol.kind = "BackReference"
       /\ nfa.transitions[Top.state][n].match_symbol.reference \notin DOMAIN Top.groups

\* C7: a back-reference to a group that the frame's captures do not hold is
\* taken as an epsilon transition that consumes nothing, and the search ends
\* with a Match or None, never with an exception.
C7_UnrecordedBackReferenceIsEpsilon ==
  /\ UnrecordedBackRef => _search_loop(nfa, input, paths).exc = "none"
  /\ op # "none" => raised = "none"

\* the indices from..len(s) at which _search returns a Match
SuccessIndices(start) ==
  {k \in start..Len(input) :
     _search(nfa, input, k).exc = "none" /\ _search(nfa, input, k).ret # None}

\* the smallest element of a nonempty set of numbers
Least(S) == CHOOSE k \in S : \A j \in S : k <= j

\* C8: search(s, start) returns what _search returns at the smallest index
\* of start..len(s) where it succeeds, and None when there is none; a*
\* searched in bcdaaaa gives the empty match at 0, and the identifier pattern
\* searched in "123abc123 abcabc123" gives span (3, 19).
C8_SearchReturnsFirstSuccess ==
  /\ Returned("search") =>
       ret = IF SuccessIndices(from) = {} THEN None
             ELSE _search(nfa, input, Least(SuccessIndices(from))).ret
  /\ (Returned("search") /\ from = 0 /\ regex = P_a_star /\ input = S_bcdaaaa)
       => (ret # None /\ MatchGroup(ret, 0) = <<>> /\ MatchSpan(ret, 0) = <<0, 0>>)
  /\ (Returned("search") /\ from = 0 /\ regex = P_ident /\ input = S_ident)
       => /\ ret # None
          /\ MatchSpan(ret, 0) = <<3, 19>>
          /\ MatchGroup(ret, 0) = SubSeq(S_ident, 4, 19)

\* the last match finditer yielded
LastYielded == yielded[Len(yielded)]

\* C9: finditer searches from a cursor that it moves to the end of each
\* match, one further when the match is empty, and stops once the cursor
\* exceeds len(s); a* on bcdaaaa yields exactly 5 matches.
C9_FinditerCursor ==
  /\ (op = "finditer" /\ yielded # <<>>) =>
       /\ cur = IF MatchEnd(LastYielded, 0) = MatchStart(LastYielded, 0)
                THEN MatchEnd(LastYielded, 0) + 1
                ELSE MatchEnd(LastYielded, 0)
       /\ cur > Len(input) => pc = "done"
       /\ pc = "_search" => (from = cur /\ i >= cur)
  /\ (Returned("finditer") /\ regex = P_a_star /\ input = S_bcdaaaa)
       => Len(yielded) = 5

\* Regex.findall(s): the group-0 substrings of the matches of finditer
findall == [k \in 1..Len(yielded) |-> MatchGroup(yielded[k], 0)]

\* C10: every match finditer emits starts at or after the end of the match
\* before it and does not end before it; findall lists the group-0
\* substrings in emission order, [abcd, efgh] for abcd|efgh on abcdefgh.
C10_FinditerNonOverlapping ==
  /\ op = "finditer" =>
       \A k \in 2..Len(yielded) :
         /\ MatchStart(yielded[k], 0) >= MatchEnd(yielded[k - 1], 0)
         /\ MatchEnd(yielded[k], 0) >= MatchEnd(yielded[k - 1], 0)
  /\ (Returned("finditer") /\ regex = P_abcd_efgh /\ input = S_abcdefgh)
       => findall = <<SubSeq(S_abcdefgh, 1, 4), SubSeq(S_abcdefgh, 5, 8)>>

\* the steps of a call that is under way: the interpreter runs the one thread
\* of the program until the call returns or raises
Running ==
  \/ _search_accept
  \/ _search_expand
  \/ _search_raise
  \/ _search_fail
  \/ match_return
  \/ search_return
  \/ search_next
  \/ search_none
  \/ finditer_yield

\* the program with a call, once made, run to its end
FairSpec == Spec /\ WF_vars(Running)

\* finditer has yielded one match more than the input has characters, the
\* most the claim allows
C11_Witness ==
  /\ Returned("finditer")
  /\ Len(input) >= 2
  /\ Len(yielded) = Len(input) + 1

\* C11: finditer makes progress and ends: after each yielded match the cursor
\* of the next search is strictly greater than the start of that match, at
\* most len(s) + 1 matches are yielded, and the iteration stops (by
\* exhaustion, or by the exception a search raised).
C11_FinditerTerminates ==
  /\ []((op = "finditer" /\ yielded # <<>>) =>
          /\ cur > MatchStart(LastYielded, 0)
          /\ (pc = "_search" => from = cur)
          /\ Len(yielded) <= Len(input) + 1)
  /\ (op = "finditer") ~> (pc \in {"done", "raised"})

\* the matches the call has handed to its caller so far
ReturnedMatches ==
  (IF pc = "done" /\ op \in {"match", "search"} /\ ret # None THEN {ret} ELSE {})
    \cup {yielded[k] : k \in 1..Len(yielded)}

\* group k of match m is closed and its span and substring agree with input
SpanConsistent(m, k) ==
  /\ DOMAIN m.groups[k] = {"start", "end", "substr"}
  /\ 0 <= m.groups[k].start
  /\ m.groups[k].start <= m.groups[k].end
  /\ m.groups[k].end <= Len(input)
  /\ m.groups[k].substr = SubSeq(input, m.groups[k].start + 1, m.groups[k].end)

\* search returned a match whose group 1 is a nonempty capture that does not
\* begin at index 0
C12_Witness ==
  /\ Returned("search")
  /\ ret # None
  /\ 1 \in DOMAIN ret.groups
  /\ MatchStart(ret, 1) >= 1
  /\ MatchEnd(ret, 1) > MatchStart(ret, 1)

\* C12: in every Match returned by match, search or finditer, every group
\* present has both ends set with 0 <= start <= end <= len(input), and its
\* substring is input[start:end]; no group is left open.
C12_SpanConsistency ==
  \A m \in ReturnedMatches : \A k \in DOMAIN m.groups : SpanConsistent(m, k)

\* _search has popped a frame that is in an accepting state
Accepting == pc = "_search" /\ paths # <<>> /\ Top.state \in nfa.end_states

\* C13: the match _search returns for a popped frame in an accepting state
\* holds group 0 with start = the frame's match start, end = the frame's
\* cursor and substr = the input between them, whatever NFA is searched,
\* one built by hand without group transitions included.
C13_GroupZeroOnSuccess ==
  Accepting =>
    /\ 0 \in DOMAIN _search_loop(nfa, input, paths).ret.groups
    /\ _search_loop(nfa, input, paths).ret.groups[0] =
         [start |-> Top.start, end |-> Top.end,
          substr |-> SubSeq(input, Top.start + 1, Top.end)]

\* C14: the epsilon-cycle prevention does not cut off the non-empty
\* iterations of a star whose body can match the empty string: (|a)* on
\* aaaab returns group(0) = aaaa.
C14_EmptyBodyStarIterates ==
  (Returned("match") /\ regex = P_empty_or_a_star /\ input = S_aaaab) =>
    /\ ret # None
    /\ MatchGroup(ret, 0) = SubSeq(S_aaaab, 1, 4)
    /\ MatchSpan(ret, 0) = <<0, 4>>

\* C15: inside a set, a "-" after a set atom is a range operator iff the two
\* characters from it on are not "-]": []-] is the alternation of the
\* literals ] and -, [a-z] is Range(a, z), and (a+|b*c)[]-][a-z]+ matches
\* a-w as a-w and c]aby{z as c]aby.
C15_SetDashIsRangeUnlessLast ==
  /\ regex = P_set_bracket_dash =>
       (parse(regex).err = "none" /\ PatternAst = Or(Literal("]"), Literal("-")))
  /\ regex = P_set_a_z =>
       (parse(regex).err = "none" /\ PatternAst = Range(<<"a">>, <<"z">>))
  /\ (Returned("match") /\ regex = P_set_test /\ input = S_a_dash_w) =>
       (ret # None /\ MatchGroup(ret, 0) = S_a_dash_w)
  /\ (Returned("match") /\ regex = P_set_test /\ input = S_c_bracket_aby) =>
       (ret # None /\ MatchGroup(ret, 0) = SubSeq(S_c_bracket_aby, 1, 5))

\* the transitions of the compiled NFA whose matcher is a RangeMatcher
RangeTransitions ==
  {t \in UNION {{nfa.transitions[q][n] : n \in 1..Len(nfa.transitions[q])} :
                  q \in DOMAIN nfa.transitions} : t.match_symbol.kind = "Range"}

\* C16: the transition compiled for a set range [lo-hi] matches the input
\* symbol c iff lo <= c <= hi, and a set [abc] matches its listed
\* characters: [a-z] matches a and w, and ab[abc] matches aba, abb and abc.
C16_SetRangeMatches ==
  /\ (regex = P_set_a_z /\ pc = "idle") =>
       /\ RangeTransitions # {}
       /\ \A t \in RangeTransitions : \A k \in 1..Len(input) :
            MatcherMatch(t.match_symbol, input, k - 1, <<>>)
              <=> (Ord("a") <= Ord(input[k]) /\ Ord(input[k]) <= Ord("z"))
  /\ (Returned("match") /\ regex = P_set_a_z /\ input \in {<<"a">>, S_w}) =>
       (ret # None /\ MatchGroup(ret, 0) = input)
  /\ (Returned("match") /\ regex = P_ab_set_abc /\ input \in {S_aba, S_abb, S_abc}) =>
       (ret # None /\ MatchGroup(ret, 0) = input)

\* the pattern is a run of parentheses that never closes a group it has
\* not opened, then one backslash, then a nonempty run of digits
IsReferencePattern(pattern) ==
  \E k \in 1..(Len(pattern) - 1) :
    /\ pattern[k] = "\\"
    /\ \A j \in 1..(k - 1) :
         /\ pattern[j] \in {"(", ")"}
         /\ Cardinality({n \in 1..j : pattern[n] = ")"})
              <= Cardinality({n \in 1..j : pattern[n] = "("})
    /\ \A j \in (k + 1)..Len(pattern) : isdigit(pattern[j])

\* where the backslash of such a pattern is
RefAt(pattern) == CHOOSE k \in 1..Len(pattern) : pattern[k] = "\\"

\* the number its digits denote
RefNumber(pattern) == int(SubSeq(pattern, RefAt(pattern) + 1, Len(pattern)))

RECURSIVE ClosedBefore(_, _, _, _, _)
\* the numbers of the groups closed in pattern[k .. last]: open holds the
\* numbers of the groups open at k, innermost last, and next is the number
\* of the next group to open
ClosedBefore(pattern, k, last, open, next) ==
  IF k > last THEN {}
  ELSE IF pattern[k] = "(" THEN ClosedBefore(pattern, k + 1, last, Append(open, next), next + 1)
  ELSE {open[Len(open)]}
         \cup ClosedBefore(pattern, k + 1, last, SubSeq(open, 1, Len(open) - 1), next)

\* the groups already closed where the back-reference stands
ClosedGroups(pattern) == ClosedBefore(pattern, 1, RefAt(pattern) - 1, <<>>, 1)

\* every group opened before the back-reference is closed before it
AllClosed(pattern) ==
  Cardinality({n \in 1..RefAt(pattern) : pattern[n] = ")"})
    = Cardinality({n \in 1..RefAt(pattern) : pattern[n] = "("})

RECURSIVE Rightmost(_)
\* the last atom of a sequence
Rightmost(ast) == IF ast.type = "Sequence" THEN Rightmost(ast.right) ELSE ast

\* C17: a backslash followed by digits that name a group which is unopened,
\* still open or nonexistent makes the constructor raise ParserError,
\* whatever the number (0, 1..9, 10 and more); a reference to a group that
\* is already closed parses to BackReference(k).
C17_BadReferenceIsParserError ==
  (pc # "__init__" /\ IsReferencePattern(regex)) =>
    IF RefNumber(regex) \in ClosedGroups(regex)
    THEN AllClosed(regex) =>
           /\ parse(regex).err = "none"
           /\ Rightmost(PatternAst) = BackReference(RefNumber(regex))
    ELSE pc = "raised" /\ raised = "ParserError"

\* every character of the pattern is in chars
OnlyChars(pattern, chars) == \A k \in 1..Len(pattern) : pattern[k] \in chars

\* the number of characters c in pattern[1 .. k]
Count(pattern, c, k) == Cardinality({n \in 1..k : pattern[n] = c})

\* a pattern of a's and parentheses with a ")" that closes nothing or a "("
\* that is never closed
UnmatchedParen(pattern) ==
  /\ OnlyChars(pattern, {"(", ")", "a"})
  /\ \/ \E k \in 1..Len(pattern) : Count(pattern, ")", k) > Count(pattern, "(", k)
     \/ Count(pattern, "(", Len(pattern)) > Count(pattern, ")", Len(pattern))

\* a pattern of a's and square brackets with a "[" that no "]" follows
UnmatchedOpenBracket(pattern) ==
  /\ OnlyChars(pattern, {"[", "]", "a"})
  /\ \E k \in 1..Len(pattern) :
       pattern[k] = "[" /\ \A j \in (k + 1)..Len(pattern) : pattern[j] # "]"

\* a pattern of a's and square brackets with a "]" that no "[" precedes
UnmatchedCloseBracket(pattern) ==
  /\ OnlyChars(pattern, {"[", "]", "a"})
  /\ \E k \in 1..Len(pattern) :
       pattern[k] = "]" /\ \A j \in 1..(k - 1) : pattern[j] # "["

\* C18: a pattern with an unmatched bracket, ( without ), ) without (,
\* [ without ] or ] without [, is rejected by the constructor: parsing ends
\* with ParserError and no Regex is produced.
C18_UnmatchedBracketIsParserError ==
  (pc # "__init__"
     /\ (UnmatchedParen(regex) \/ UnmatchedOpenBracket(regex) \/ UnmatchedCloseBracket(regex)))
    => (pc = "raised" /\ raised = "ParserError")

\* a pattern of a's and anchors with at least one anchor
IsAnchored(pattern) ==
  /\ OnlyChars(pattern, {"a", "^", "$"})
  /\ \E k \in 1..Len(pattern) : pattern[k] \in ANCHORS

\* the pattern without its anchors
WithoutAnchors(pattern) == SelectSeq(pattern, LAMBDA c : c \notin ANCHORS)

\* C19: a pattern with the anchors ^ or $ is constructed without error, and
\* the executor takes each anchor as a no-op: ^a and a$ match what a
\* matches, with the same spans.
C19_AnchorsAreNoOps ==
  (pc # "__init__" /\ IsAnchored(regex)) =>
    /\ pc # "raised"
    /\ raised = "none"
    /\ Returned("match") =>
         ret = _search(Regex(WithoutAnchors(regex), opt).nfa, input, 0).ret

\* the pattern parses and the builder makes an NFA of it
Builds(pattern) ==
  /\ parse(pattern).err = "none"
  /\ build_nfa(parse(pattern).ast).err = "none"

\* C20: the optimizer is the identity: for a pattern that parses and builds,
\* the constructor returns at level O0 and at level O1 with the NFA the
\* builder made (same states, transitions in the same order, start and
\* accept states), so both levels give the same results on every input.
C20_OptimizerIsIdentity ==
  (pc # "__init__" /\ Builds(regex)) =>
    /\ pc = "idle"
    /\ nfa = build_nfa(parse(regex).ast).nfa
    /\ Regex(regex, O0) = Regex(regex, O1)
    /\ Regex(regex, O0).err = "none"

\* the calls that ended earlier with the operation and start index of the
\* call that has just ended
SameCallEarlier == {k \in 1..Len(runs) : runs[k].op = op /\ runs[k].start = Outcome.start}

TakenInInsertionOrder ==
  SelectSeq(nfa.transitions[Top.state], LAMBDA t : Pushes(Top, t, input))

\* C22: when the popped frame has several transitions that are taken, the
\* successor of a transition inserted earlier is explored later than the
\* successor of one inserted later: the successors lie on the stack, bottom
\* to top, in insertion order, and the one inserted last is popped next.
C22_EarlierInsertedExploredLater ==
  [][_search_expand =>
       paths' = SubSeq(paths, 1, Len(paths) - 1)
                  \o [k \in 1..Len(TakenInInsertionOrder) |->
                        new_path(Top, TakenInInsertionOrder[k], input)]]_vars

\* C23: _search ends, for every compiled NFA, string and start index, also
\* with epsilon loops and back-references to an empty capture: it leaves its
\* loop only with a popped accepting frame or with the stack empty (never
\* with an exception), and it does leave it.
C23_FindFromTerminates ==
  /\ [](/\ op # "none" => pc # "raised"
        /\ (pc = "_search_ret" /\ found = None) => paths = <<>>)
  /\ (pc = "_search") ~> (pc = "_search_ret")

\* the transitions for which the loop of _search pushes a frame, in the
\* order it pushes them
Taken == SelectSeq(StateIter(nfa.transitions[Top.state]), LAMBDA t : Pushes(Top, t, input))

\* the states whose pure-epsilon transitions were traversed since the last
\* consuming transition, once transition t is taken from frame path
PureEpsilonCycle(path, t) ==
  IF num_consumed(t.match_symbol, path.groups) >= 1 THEN {}
  ELSE IF is_pure_epsilon_transition(t, path.groups) THEN path.cur_cycle \cup {path.state}
  ELSE path.cur_cycle

\* C24: the epsilon-cycle set of every frame holds exactly the states whose
\* pure-epsilon transitions (not the transitions that open or close a
\* group) were traversed on its path since the last consuming transition;
\* it is empty in the first frame and in a frame made by a transition that
\* consumed a symbol.
C24_CycleSetIsPureEpsilonStates ==
  [][/\ (pc' = "_search" /\ pc # "_search") => paths'[1].cur_cycle = {}
     /\ _search_expand =>
          \A k \in 1..Len(Taken) :
            paths'[Len(paths) - 1 + k].cur_cycle = PureEpsilonCycle(Top, Taken[k])]_vars

\* the group whose capture transition t opens or closes
GroupOf(t) ==
  IF is_starting_group(t) THEN {t.start_group}
  ELSE IF is_ending_group(t) THEN {t.end_group}
  ELSE {}

\* capture maps a and b are the same outside the groups in except
SameCapturesBut(a, b, except) ==
  /\ DOMAIN a \ except = DOMAIN b \ except
  /\ \A g \in DOMAIN a \ except : a[g] = b[g]

\* a frame waits on the stack with a closed group 1 while the top frame,
\* on another branch, has recorded something else for group 1
C25_Witness ==
  /\ pc = "_search"
  /\ Len(paths) >= 2
  /\ \E k \in 1..(Len(paths) - 1) :
       /\ 1 \in DOMAIN paths[k].groups
       /\ 1 \in DOMAIN Top.groups
       /\ "substr" \in DOMAIN paths[k].groups[1]
       /\ "substr" \in DOMAIN Top.groups[1]
       /\ paths[k].groups[1] # Top.groups[1]

\* C25: the frames that wait on the stack keep their capture maps while
\* another frame is expanded or accepted; a successor frame has the captures
\* of the frame it was made from, but for the one group its transition
\* opens or closes; and an accepted frame returns its own captures.
C25_BranchIsolation ==
  [][/\ (_search_expand \/ _search_accept) =>
          \A k \in 1..(Len(paths) - 1) : paths'[k] = paths[k]
     /\ _search_expand =>
          \A k \in 1..Len(Taken) :
            SameCapturesBut(paths'[Len(paths) - 1 + k].groups, Top.groups, GroupOf(Taken[k]))
     /\ _search_accept => found' = Match(Top.groups)]_vars

\* C26: a matcher of any kind that matches at position i consumes no more
\* than the input has left (i + consumed <= len(input)), so that every frame
\* _search pushes has match_start <= cursor <= len(input).
C26_ConsumedWithinInput ==
  /\ Expanding =>
       \A n \in 1..Len(nfa.transitions[Top.state]) :
         (/\ TransitionRaises(Top, nfa.transitions[Top.state][n], input) = "none"
          /\ MatcherMatch(nfa.transitions[Top.state][n].match_symbol, input, Top.end, Top.groups))
           => Top.end + num_consumed(nfa.transitions[Top.state][n].match_symbol, Top.groups)
                <= Len(input)
  /\ pc = "_search" =>
       \A k \in 1..Len(paths) : paths[k].start <= paths[k].end /\ paths[k].end <= Len(input)

\* the transitions of the NFA n, each with the state it leaves
Edges(n) ==
  UNION {{[source |-> q, t |-> n.transitions[q][k]] : k \in 1..Len(n.transitions[q])} :
           q \in DOMAIN n.transitions}

\* the groups the transitions of n open or close
GroupsOf(n) ==
  {e.t.start_group : e \in {x \in Edges(n) : is_starting_group(x.t)}}
    \cup {e.t.end_group : e \in {x \in Edges(n) : is_ending_group(x.t)}}

\* one round of the analysis: the groups opened on every path from the start
\* state to q are those opened on every path to a predecessor of q or by the
\* transition from it
OpenedStep(n, opened) ==
  [q \in DOMAIN n.transitions |->
     IF q = n.start_state THEN {}
     ELSE {g \in GroupsOf(n) :
             \A e \in {x \in Edges(n) : x.t.target_name = q} :
               \/ g \in opened[e.source]
               \/ is_starting_group(e.t) /\ g = e.t.start_group}]

RECURSIVE OpenedFix(_, _)
OpenedFix(n, opened) ==
  IF OpenedStep(n, opened) = opened THEN opened ELSE OpenedFix(n, OpenedStep(n, opened))

\* for every state of n, the groups opened on every path from the start state
OpenedOnEveryPath(n) ==
  OpenedFix(n, [q \in DOMAIN n.transitions |-> IF q = n.start_state THEN {} ELSE GroupsOf(n)])

\* the loop of _search is about to close a group other than 0 on a frame
C27_Witness ==
  /\ Expanding
  /\ \E n \in 1..Len(nfa.transitions[Top.state]) :
       /\ is_ending_group(nfa.transitions[Top.state][n])
       /\ nfa.transitions[Top.state][n].end_group >= 1
       /\ nfa.transitions[Top.state][n].end_group \in DOMAIN Top.groups

\* C27: in the NFA the builder makes of a parsed pattern, the transition that
\* closes group k is taken only after the one that opens it on every path
\* from the start state, so _search closes a group only on a frame whose
\* captures hold it; no transition both opens and closes; and the NFA has
\* one start and one accept state, the entry and exit of group 0.
C27_BuilderGroupStructure ==
  /\ pc = "idle" =>
       /\ \A e \in Edges(nfa) :
            /\ ~(is_starting_group(e.t) /\ is_ending_group(e.t))
            /\ is_ending_group(e.t) => e.t.end_group \in OpenedOnEveryPath(nfa)[e.source]
       /\ nfa.start_state \in DOMAIN nfa.transitions
       /\ Cardinality(nfa.end_states) = 1
       /\ \E e \in Edges(nfa) : e.source = nfa.start_state /\ e.t.start_group = 0
       /\ \E e \in Edges(nfa) : e.t.target_name \in nfa.end_states /\ e.t.end_group = 0
  /\ Expanding =>
       \A n \in 1..Len(nfa.transitions[Top.state]) :
         is_ending_group(nfa.transitions[Top.state][n])
           => nfa.transitions[Top.state][n].end_group \in DOMAIN Top.groups

\* C28: for every pattern that parses, the constructor finishes (it returns
\* the Regex or raises): it is never left in the while loop of the closure
\* computation of the Optimizer, also for a quantified back-reference.
C28_CompilationTerminates ==
  (pc # "__init__" /\ parse(regex).err = "none") => pc \in {"idle", "raised"}

====
